---------------------------- MODULE Spec2Model ----------------------------
(***************************************************************************)
(* A model of peer2peer-cache: the singleflight load coordinator           *)
(* (Group.Do), the LRU cache (LruCache) and the consistent-hash ring       *)
(* (consistenthash.Map).  Each component has its own specification; the    *)
(* variables of the other components stay at their constructed values.     *)
(***************************************************************************)
EXTENDS Integers, Sequences, FiniteSets, TLC

(***************************************************************************)
(* Bounds of the model.                                                    *)
(***************************************************************************)
\* goroutines calling Group.Do
NumProcs == 3
\* distinct keys passed to Group.Do
NumKeys == 2

\* largest MaxEntries given to NewLru
MaxCap == 2
\* distinct keys added to the LRU cache
NumCacheKeys == 3

\* largest replica count given to consistenthash.New
MaxReplicas == 2
\* Add calls made on one ring
MaxAdds == 2
\* peers given to one Add call
MaxAddLen == 2

\* Register calls made in one process
MaxRegs == 3

\* longest content of a ByteView
MaxViewLen == 2
\* longest buffer given to ByteView.ReadAt, longest destination of a sink
MaxBufLen == 2

\* values delivered to one sink
MaxSets == 1

Procs == 1 .. NumProcs
Keys == 1 .. NumKeys

\* Keys and values of the LRU cache; "nil" is Go's nil value.
CacheKeys == 1 .. NumCacheKeys
CacheVals == {"x", "y"}

\* The (value, error) pairs a load function returns here: a value with a nil
\* error, or the nil value with an error.
FnResults == {<<"v", "nil">>, <<"nil", "load failed">>}

\* The ghost marker of a load that has not returned yet.
NoOut == <<>>

VARIABLES
    \* ---- singleflight.Group ----
    mu,         \* Group.mu: 0 when free, else the goroutine holding it
    callMapMade,\* Group.callMap # nil
    callMap,    \* Group.callMap: key -> *doCall (an index into calls)
    calls,      \* the doCall records allocated so far: [wg, val, err]
    pc,         \* each goroutine's position in Do (source line)
    key,        \* Do's argument key, per goroutine
    call,       \* Do's local variable call, per goroutine (0: unset)
    ret,        \* what Do returned, per goroutine
    \* ---- history of the loads, kept to state the claims ----
    hist,       \* per doCall record: its key, its executor, what fn returned, whether deregistered
    role,       \* per goroutine: "none", "executor" or "waiter" in its current call
    atCall,     \* per goroutine: the records of its key returned / removed when Do was called
    \* ---- lru.LruCache ----
    lru,        \* the LruCache: [MaxEntries, OnEvicted (set or nil), dll, cache, cacheNil]
    \* ---- history of the cache, kept to state the claims ----
    last,       \* the last operation: its arguments, what it returned, the OnEvicted calls it made
    run,        \* the keys added and the keys given to OnEvicted, while only distinct keys were added
    shadow,     \* key -> last value added, while only Add, Get and Remove were called
    present,    \* the entries a Get would find, each with the value last added, most recently used first
    cleared,    \* Clear has been called
    \* ---- consistenthash.Map ----
    ring,       \* the Maps of two processes of the cluster: [hash, replicas, keys, hashMap]
    \* ---- history of the rings, kept to state the claims ----
    members,    \* per ring: the peers added so far
    before,     \* per ring: the Map and its peers before the last Add, and that Add's arguments
    nadds,      \* per ring: the number of Add calls made
    \* ---- peer-picker registration ----
    portPicker, \* the package variable portPicker: "nil" or the registered function
    regLog,     \* history: the Register calls made so far, each with its outcome
    \* ---- ByteView ----
    view,       \* a ByteView: [bnil (b == nil), b, s]
    readLast,   \* the last ReadAt call on view: its arguments and what it returned
    \* ---- a Sink and its caller ----
    heap,       \* the backing arrays of the byte slices allocated so far
    sink,       \* the sink: [kind, dstNil (built with a nil pointer), v (its ByteView field)]
    dst,        \* the variable the sink's pointer points to: [str, view, msg, slice]
    callerBuf,  \* the slice the caller passed to the last SetBytes
    sinkLast,   \* history: the last delivery, its result, view() before and after it
    nsets       \* the number of deliveries made

flightVars == <<mu, callMapMade, callMap, calls, pc, key, call, ret,
                hist, role, atCall>>

lruVars == <<lru, last, run, shadow, present, cleared>>

ringVars == <<ring, members, before, nadds>>

regVars == <<portPicker, regLog>>

\* The state outside the singleflight group, the cache and the ring.
readVars == <<view, readLast>>

sinkVars == <<heap, sink, dst, callerBuf, sinkLast, nsets>>

restVars == <<regVars, readVars, sinkVars>>

\* The state of the singleflight group, the cache and the ring.
coreVars == <<flightVars, lruVars, ringVars>>

vars == <<flightVars, lruVars, ringVars, restVars>>

(***************************************************************************)
(* singleflight                                                            *)
(***************************************************************************)
\* new(doCall): the zero value of the record.
NewDoCall == [wg |-> 0, val |-> "nil", err |-> "nil"]

\* g.mu.Unlock(): the value of mu afterwards.  (Faulty variant: the lock
\* is kept, as with an unlock deferred to the end of Do.)
UnlockKeepsHolding(p) == mu
Unlock(p) == 0

\* The comma-ok lookup g.callMap[key].  (Faulty variant: the duplicate is
\* never seen.)
HasCallNever(k) == FALSE
HasCall(k) == k \in DOMAIN callMap

\* delete(g.callMap, key).  (Faulty variant: the record is left behind.)
DeleteNothing(m, k) == m
DeleteKey(m, k) == [x \in (DOMAIN m) \ {k} |-> m[x]]

\* call.wg.Wait() may return: the counter is zero.  (Faulty variant: the
\* waiter does not wait.)
WaitNeverBlocks(c) == TRUE
WaitDone(c) == calls[c].wg = 0

\* call.wg.Done(): the counter afterwards.  (Faulty variant: the counter
\* is left as it is.)
WgStaysUp(n) == n
WgAfterDone(n) == n - 1

\* The map m holds record c.
Registered(m, c) == \E k \in DOMAIN m : m[k] = c

\* Goroutine p calls Do(k, fn), once: it is about to take g.mu (line 61).
\* Goroutines and keys are interchangeable, so they are named in the order
\* of their first use: p calls after every lower-numbered goroutine has, and
\* k is at most one more than the keys used so far.
DoCall(p, k) ==
    /\ pc[p] = "idle"
    /\ \A q \in Procs : q < p => pc[q] # "idle"
    /\ \A j \in Keys : j < k => \E q \in Procs : pc[q] # "idle" /\ key[q] = j
    /\ pc' = [pc EXCEPT ![p] = "L61"]
    /\ key' = [key EXCEPT ![p] = k]
    /\ atCall' = [atCall EXCEPT ![p] =
                    [returned |-> {c \in DOMAIN hist :
                                     hist[c].key = k /\ hist[c].out # NoOut},
                     removed  |-> {c \in DOMAIN hist :
                                     hist[c].key = k /\ hist[c].removed}]]
    /\ UNCHANGED <<mu, callMapMade, callMap, calls, call, ret, hist, role>>

\* g.mu.Lock() at line 61.
Lock61(p) ==
    /\ pc[p] = "L61"
    /\ mu = 0
    /\ mu' = p
    /\ pc' = [pc EXCEPT ![p] = "L62"]
    /\ UNCHANGED <<callMapMade, callMap, calls, key, call, ret,
                   hist, role, atCall>>

\* Lines 62-66, the record is found: unlock and go to wait on it.
Join(p) ==
    /\ pc[p] = "L62"
    /\ HasCall(key[p])
    /\ callMapMade' = TRUE
    /\ call' = [call EXCEPT ![p] = callMap[key[p]]]
    /\ mu' = Unlock(p)
    /\ pc' = [pc EXCEPT ![p] = "L67"]
    /\ role' = [role EXCEPT ![p] = "waiter"]
    /\ UNCHANGED <<callMap, calls, key, ret, hist, atCall>>

\* Lines 62-73, no record: allocate one, wg.Add(1), register it, unlock.
\* The load function starts: it is running while pc[p] = "L74".
Register(p) ==
    /\ pc[p] = "L62"
    /\ ~HasCall(key[p])
    /\ LET c == Len(calls) + 1 IN
        /\ callMapMade' = TRUE
        /\ calls' = Append(calls, [NewDoCall EXCEPT !.wg = 1])
        /\ callMap' = [x \in (DOMAIN callMap) \cup {key[p]} |->
                         IF x = key[p] THEN c ELSE callMap[x]]
        /\ call' = [call EXCEPT ![p] = c]
        /\ hist' = Append(hist, [key |-> key[p], by |-> p, out |-> NoOut,
                                 removed |-> FALSE])
    /\ mu' = Unlock(p)
    /\ pc' = [pc EXCEPT ![p] = "L74"]
    /\ role' = [role EXCEPT ![p] = "executor"]
    /\ UNCHANGED <<key, ret, atCall>>

\* Lines 67-68: call.wg.Wait() returns, then return call.val, call.err.
\* (The record's fields are not written once its counter is zero.)
Wait(p) ==
    /\ pc[p] = "L67"
    /\ WaitDone(call[p])
    /\ ret' = [ret EXCEPT ![p] = <<calls[call[p]].val, calls[call[p]].err>>]
    /\ pc' = [pc EXCEPT ![p] = "done"]
    /\ UNCHANGED <<mu, callMapMade, callMap, calls, key, call,
                   hist, role, atCall>>

\* Line 74: fn returns r, stored in call.val, call.err.
FnReturn(p, r) ==
    /\ pc[p] = "L74"
    /\ calls' = [calls EXCEPT ![call[p]].val = r[1], ![call[p]].err = r[2]]
    /\ hist' = [hist EXCEPT ![call[p]].out = r]
    /\ pc' = [pc EXCEPT ![p] = "L75"]
    /\ UNCHANGED <<mu, callMapMade, callMap, key, call, ret,
                   role, atCall>>

\* Line 75: call.wg.Done().
WgDone(p) ==
    /\ pc[p] = "L75"
    /\ calls' = [calls EXCEPT ![call[p]].wg = WgAfterDone(@)]
    /\ pc' = [pc EXCEPT ![p] = "L77"]
    /\ UNCHANGED <<mu, callMapMade, callMap, key, call, ret,
                   hist, role, atCall>>

\* g.mu.Lock() at line 77.
Lock77(p) ==
    /\ pc[p] = "L77"
    /\ mu = 0
    /\ mu' = p
    /\ pc' = [pc EXCEPT ![p] = "L78"]
    /\ UNCHANGED <<callMapMade, callMap, calls, key, call, ret,
                   hist, role, atCall>>

\* Lines 78-80: delete(g.callMap, key); g.mu.Unlock(); return call.val,
\* call.err.
Deregister(p) ==
    /\ pc[p] = "L78"
    /\ callMap' = DeleteKey(callMap, key[p])
    /\ hist' = [c \in DOMAIN hist |->
                  [hist[c] EXCEPT !.removed = ~Registered(callMap', c)]]
    /\ mu' = Unlock(p)
    /\ ret' = [ret EXCEPT ![p] = <<calls[call[p]].val, calls[call[p]].err>>]
    /\ pc' = [pc EXCEPT ![p] = "done"]
    /\ UNCHANGED <<callMapMade, calls, key, call, role, atCall>>

(***************************************************************************)
(* lru.LruCache.  dll is the list front first, each element holding its    *)
(* entry [key, value]; cache is the key set of the index map, whose value  *)
(* for a key is the list element holding that key.  cacheNil: cache and    *)
(* dll are nil (after Clear).                                              *)
(***************************************************************************)
\* NewLru(maxEntries), and the OnEvicted field as the caller sets it.
NewLru(maxEntries, onEvicted) ==
    [MaxEntries |-> maxEntries, OnEvicted |-> onEvicted,
     dll |-> <<>>, cache |-> {}, cacheNil |-> FALSE]

\* The list element cache[k]: its position in dll.
Elem(c, k) == CHOOSE i \in 1 .. Len(c.dll) : c.dll[i].key = k

\* list.MoveToFront, list.PushFront, list.Remove, list.Front and list.Back
\* (0: nil).  (Faulty variant of MoveToFront: the element stays where it is;
\* of Remove: the element stays in the list.)
MoveToFrontStays(l, i) == l
MoveToFront(l, i) == <<l[i]>> \o SubSeq(l, 1, i - 1) \o SubSeq(l, i + 1, Len(l))
PushFront(l, e) == <<e>> \o l
ListRemoveNothing(l, i) == l
ListRemove(l, i) == SubSeq(l, 1, i - 1) \o SubSeq(l, i + 1, Len(l))
Front(l) == IF Len(l) = 0 THEN 0 ELSE 1
Back(l) == Len(l)

\* Line 143: the cache has grown beyond its capacity.  (Faulty variants:
\* one entry too many is allowed; MaxEntries = 0 is not exempted.)
OverCapacityOffByOne(c) == c.MaxEntries # 0 /\ Len(c.dll) > c.MaxEntries + 1
OverCapacityUnlimitedIgnored(c) == Len(c.dll) > c.MaxEntries
OverCapacity(c) == c.MaxEntries # 0 /\ Len(c.dll) > c.MaxEntries

\* An operation in progress: the cache and the OnEvicted calls made so far.
Running(c) == [c |-> c, hooked |-> <<>>]

\* Lines 188-190: the OnEvicted calls made for the entry removed.  (Faulty
\* variant: the hook is not called.)
HookedNever(c, ent) == <<>>
Hooked(c, ent) == IF c.OnEvicted THEN <<<<ent.key, ent.value>>>> ELSE <<>>

\* removeElement(elem), elem at position i of dll.
removeElement(st, i) ==
    LET ent == st.c.dll[i] IN
    [c |-> [st.c EXCEPT !.dll = ListRemove(@, i), !.cache = @ \ {ent.key}],
     hooked |-> st.hooked \o Hooked(st.c, ent)]

\* RemoveOldest()
RemoveOldest(st) ==
    IF st.c.cacheNil THEN st
    ELSE LET elem == Back(st.c.dll) IN
         IF elem # 0 THEN removeElement(st, elem) ELSE st

\* Add(key, value)
Add(st, k, v) ==
    LET made == IF st.c.cacheNil
                THEN [st EXCEPT !.c.cache = {}, !.c.dll = <<>>, !.c.cacheNil = FALSE]
                ELSE st
    IN  IF k \in made.c.cache
        THEN LET i == Elem(made.c, k) IN
             [made EXCEPT !.c.dll = [MoveToFront(@, i) EXCEPT ![1].value = v]]
        ELSE LET pushed == [made EXCEPT
                               !.c.dll = PushFront(@, [key |-> k, value |-> v]),
                               !.c.cache = @ \cup {k}]
             IN  IF OverCapacity(pushed.c) THEN RemoveOldest(pushed) ELSE pushed

\* Get(key): the cache afterwards, and the (val, ok) it returns.
Get(st, k) ==
    IF st.c.cacheNil THEN st
    ELSE IF k \in st.c.cache
         THEN [st EXCEPT !.c.dll = MoveToFront(@, Elem(st.c, k))]
         ELSE st

GetResult(c, k) ==
    IF c.cacheNil THEN <<"nil", FALSE>>
    ELSE IF k \in c.cache
         THEN <<c.dll[Elem(c, k)].value, TRUE>>
         ELSE <<"nil", FALSE>>

\* Remove(key)
Remove(st, k) ==
    IF st.c.cacheNil THEN st
    ELSE IF k \in st.c.cache THEN removeElement(st, Elem(st.c, k)) ELSE st

\* Len()
LruLen(c) == IF c.cacheNil THEN 0 ELSE Len(c.dll)

\* The orders in which Clear's range over the map may visit the entries.
Orders(S) == {o \in [1 .. Cardinality(S) -> S] : \A i, j \in DOMAIN o : i # j => o[i] # o[j]}

\* Clear(), its range visiting the map in order o.  (Faulty variant: the
\* list and the map are left as they are.)
ClearKeepsEntries(st, o) ==
    [c |-> st.c,
     hooked |-> IF st.c.OnEvicted
                THEN st.hooked \o [i \in DOMAIN o |->
                                     <<o[i], st.c.dll[Elem(st.c, o[i])].value>>]
                ELSE st.hooked]
Clear(st, o) ==
    [c |-> [st.c EXCEPT !.dll = <<>>, !.cache = {}, !.cacheNil = TRUE],
     hooked |-> IF st.c.OnEvicted
                THEN st.hooked \o [i \in DOMAIN o |->
                                     <<o[i], st.c.dll[Elem(st.c, o[i])].value>>]
                ELSE st.hooked]

NoLast == [op |-> "New", key |-> 0, val |-> "nil", res |-> <<"nil", FALSE>>,
           hooked |-> <<>>, before |-> <<>>]
NoRun == [valid |-> FALSE, added |-> <<>>, evicted |-> <<>>]
NoShadow == [valid |-> FALSE, map |-> <<>>]

InitLruWith(maxEntries, onEvicted) ==
    /\ lru = NewLru(maxEntries, onEvicted)
    /\ last = NoLast
    /\ run = [valid |-> TRUE, added |-> <<>>, evicted |-> <<>>]
    /\ shadow = [valid |-> TRUE, map |-> <<>>]
    /\ present = <<>>
    /\ cleared = FALSE

\* q without the entries of key k.
Without(q, k) == SelectSeq(q, LAMBDA e : e.key # k)

\* The entries of q with key k.
Only(q, k) == SelectSeq(q, LAMBDA e : e.key = k)

\* The entries in use after operation op on key k with value v and result
\* res: Add(k, v) and a Get(k) that hits make k the most recently used.
Used(q, op, k, v, res) ==
    IF op = "Add" THEN <<[key |-> k, value |-> v]>> \o Without(q, k)
    ELSE IF op = "Get" /\ res[2] THEN Only(q, k) \o Without(q, k)
    ELSE q

\* The history after an operation: run stays valid while only keys not
\* added before are added, shadow while only Add, Get, Remove are called;
\* present keeps the entries that a Get still finds.
Keep(st, op, k, v, res) ==
    /\ lru' = st.c
    /\ last' = [op |-> op, key |-> k, val |-> v, res |-> res, hooked |-> st.hooked,
                before |-> present]
    /\ present' = SelectSeq(Used(present, op, k, v, res),
                            LAMBDA e : GetResult(st.c, e.key)[2])
    /\ cleared' = (cleared \/ op = "Clear")
    /\ run' = IF op = "Add" /\ run.valid /\ \A i \in DOMAIN run.added : run.added[i] # k
              THEN [valid |-> TRUE, added |-> Append(run.added, k),
                    evicted |-> run.evicted \o [i \in DOMAIN st.hooked |-> st.hooked[i][1]]]
              ELSE NoRun
    /\ shadow' = IF shadow.valid /\ op \in {"Add", "Get", "Remove"}
                 THEN [shadow EXCEPT !.map =
                         IF op = "Add"
                         THEN [x \in (DOMAIN @) \cup {k} |-> IF x = k THEN v ELSE @[x]]
                         ELSE IF op = "Remove"
                         THEN [x \in (DOMAIN @) \ {k} |-> @[x]]
                         ELSE @]
                 ELSE NoShadow

LruAdd(k, v) == Keep(Add(Running(lru), k, v), "Add", k, v, <<"nil", FALSE>>)

LruGet(k) == Keep(Get(Running(lru), k), "Get", k, "nil", GetResult(lru, k))

LruRemove(k) == Keep(Remove(Running(lru), k), "Remove", k, "nil", <<"nil", FALSE>>)

LruRemoveOldest == Keep(RemoveOldest(Running(lru)), "RemoveOldest", 0, "nil", <<"nil", FALSE>>)

LruClear ==
    \E o \in Orders(IF lru.cacheNil THEN {} ELSE lru.cache) :
        Keep(Clear(Running(lru), o), "Clear", 0, "nil", <<"nil", FALSE>>)

(***************************************************************************)
(* consistenthash.Map.  A string is the sequence of its bytes; a peer is   *)
(* a string.  The hash is the caller's: New takes any func([]byte) uint32, *)
(* and the model draws it from two checksums (crc32.ChecksumIEEE, the      *)
(* default for a nil hashFn, is one more function of that type and is not  *)
(* computed here).                                                         *)
(***************************************************************************)
\* The bytes of the characters used.
Digit(d) == 48 + d
Letter(n) == 96 + n

\* strconv.Itoa(i), i >= 0.
RECURSIVE Itoa(_)
Itoa(i) == IF i < 10 THEN <<Digit(i)>> ELSE Itoa(i \div 10) \o <<Digit(i % 10)>>

\* Two Hash functions: the sum of the bytes, and the polynomial 31-hash.
\* On the strings of the model (at most three bytes) neither reaches 2^32,
\* so the uint32 arithmetic never wraps.
RECURSIVE HashSum(_)
HashSum(data) ==
    IF data = <<>> THEN 0 ELSE HashSum(Tail(data)) + Head(data)

RECURSIVE HashPoly(_, _)
HashPoly(h, data) ==
    IF data = <<>> THEN h ELSE HashPoly(h * 31 + Head(data), Tail(data))

HashFns == {"sum", "poly"}

\* m.hash(data), converted to int (64 bits: the value is kept).
Hash(m, data) == IF m.hash = "sum" THEN HashSum(data) ELSE HashPoly(0, data)

\* The peers, and the keys looked up: below, between, on and above the
\* hashes of the virtual nodes.
Peers == {<<Letter(1)>>, <<Letter(2)>>, <<Letter(3)>>}
LookupKeys ==
    {<<Letter(1)>>, <<Letter(26), Letter(26)>>}
        \cup {<<Digit(d), Letter(n)>> : d \in 0 .. MaxReplicas, n \in 1 .. 4}

\* New(replicas, hashFn)
New(replicas, hashFn) ==
    [hash |-> hashFn, replicas |-> replicas, keys |-> <<>>, hashMap |-> <<>>]

\* sort.Ints
RECURSIVE Insert(_, _)
Insert(q, x) ==
    IF q = <<>> THEN <<x>>
    ELSE IF x <= Head(q) THEN <<x>> \o q
    ELSE <<Head(q)>> \o Insert(Tail(q), x)

RECURSIVE SortedInts(_)
SortedInts(q) == IF q = <<>> THEN <<>> ELSE Insert(SortedInts(Tail(q)), Head(q))

\* sort.Ints(m.keys) at line 42.  (Faulty variant: the sort is left out.)
Unsorted(q) == q
SortInts(q) == SortedInts(q)

\* Lines 36-40: the replicas i .. m.replicas-1 of one peer.
RECURSIVE AddReplicas(_, _, _)
AddReplicas(m, peer, i) ==
    IF i < m.replicas
    THEN LET hash == Hash(m, Itoa(i) \o peer) IN
         AddReplicas([m EXCEPT
                        !.keys = Append(@, hash),
                        !.hashMap = [x \in (DOMAIN @) \cup {hash} |->
                                       IF x = hash THEN peer ELSE @[x]]],
                     peer, i + 1)
    ELSE m

\* Lines 35-41: the peers in argument order.
RECURSIVE AddPeers(_, _)
AddPeers(m, peers) ==
    IF peers = <<>> THEN m
    ELSE AddPeers(AddReplicas(m, Head(peers), 0), Tail(peers))

\* Add(keys...)
MapAdd(m, peers) ==
    LET added == AddPeers(m, peers) IN [added EXCEPT !.keys = SortInts(@)]

\* IsEmpty()
IsEmpty(m) == Len(m.keys) = 0

\* Line 53: the predicate given to sort.Search.  (Faulty variant: > for >=.)
After(x, hash) == x > hash
AtOrAfter(x, hash) == x >= hash

\* sort.Search(n, f): the smallest index in [i, j) at which f holds, j when
\* there is none, by bisection; indices from 0.
RECURSIVE Search(_, _, _, _)
Search(keys, hash, i, j) ==
    IF i < j
    THEN LET h == (i + j) \div 2 IN
         IF ~AtOrAfter(keys[h + 1], hash)
         THEN Search(keys, hash, h + 1, j)
         ELSE Search(keys, hash, i, h)
    ELSE i

\* Lines 57-59: the index after the last wraps to the first.
Wrap(idx, n) == IF idx = n THEN 0 ELSE idx

\* Get(key); "" is the empty sequence.
MapGet(m, k) ==
    IF IsEmpty(m) THEN <<>>
    ELSE LET hash == Hash(m, k)
             idx == Wrap(Search(m.keys, hash, 0, Len(m.keys)), Len(m.keys))
         IN  m.hashMap[m.keys[idx + 1]]

RingIds == {1, 2}

\* All sequences over S of length at most n.
RECURSIVE SeqsUpTo(_, _)
SeqsUpTo(S, n) ==
    IF n = 0 THEN {<<>>}
    ELSE LET shorter == SeqsUpTo(S, n - 1) IN
         shorter \cup {Append(q, x) : q \in shorter, x \in S}

InitRingWith(replicas, hashFn) ==
    /\ ring = [i \in RingIds |-> New(replicas, hashFn)]
    /\ members = [i \in RingIds |-> {}]
    /\ before = [i \in RingIds |->
                   [map |-> New(replicas, hashFn), members |-> {}, added |-> <<>>]]
    /\ nadds = [i \in RingIds |-> 0]

\* Process i calls Add(peers...) on its ring.
RingAdd(i, peers) ==
    /\ nadds[i] < MaxAdds
    /\ nadds' = [nadds EXCEPT ![i] = @ + 1]
    /\ ring' = [ring EXCEPT ![i] = MapAdd(@, peers)]
    /\ members' = [members EXCEPT ![i] = @ \cup {peers[j] : j \in DOMAIN peers}]
    /\ before' = [before EXCEPT ![i] =
                    [map |-> ring[i], members |-> members[i], added |-> peers]]

(***************************************************************************)
(* Peer-picker registration: the package variable portPicker and the two   *)
(* functions that set it.  A function value is a name, "nil" the nil       *)
(* function.  A panic is recorded as the call's outcome, so that the calls *)
(* after it (of a program that recovers) can be followed.                  *)
(***************************************************************************)
\* The functions a caller may pass: nil, or one of two factories.
PickerFns == {"nil", "fnA", "fnB"}

\* portPicker's zero value (nil).
NilPicker == [kind |-> "nil", fn |-> "nil"]

\* Lines 43-45: the closure func(_ string) PeerPicker { return fn() }, a
\* non-nil function value whatever fn is.
Closure(fn) == [kind |-> "closure", fn |-> fn]

\* Line 57: fn itself, which is nil when fn is nil.
Direct(fn) == IF fn = "nil" THEN NilPicker ELSE [kind |-> "perGroup", fn |-> fn]

\* Lines 40 and 54: portPicker != nil.
AlreadySet == portPicker # NilPicker

RegIdle ==
    /\ portPicker = NilPicker
    /\ regLog = <<>>

\* A call of function fun with argument fn, which stores picker unless it
\* panics.
RegisterCall(fun, fn, picker) ==
    /\ Len(regLog) < MaxRegs
    /\ IF AlreadySet
       THEN /\ regLog' = Append(regLog, [fun |-> fun, arg |-> fn, outcome |-> "panic",
                                         picker |-> NilPicker])
            /\ UNCHANGED portPicker
       ELSE /\ regLog' = Append(regLog, [fun |-> fun, arg |-> fn, outcome |-> "ok",
                                         picker |-> picker])
            /\ portPicker' = picker

\* RegisterPeerPicker(fn)
RegisterPeerPicker(fn) == RegisterCall("RegisterPeerPicker", fn, Closure(fn))

\* RegisterPerGroupPeerPicker(fn)
RegisterPerGroupPeerPicker(fn) == RegisterCall("RegisterPerGroupPeerPicker", fn, Direct(fn))

(***************************************************************************)
(* ByteView: b (a byte slice, or nil) and s (a string), both sequences of  *)
(* bytes here; the content is b when b is not nil, else s.  An operation   *)
(* that panics yields [panic |-> TRUE].                                    *)
(***************************************************************************)
ByteVals == {1, 2}

BytesOf(v) == IF ~v.bnil THEN v.b ELSE v.s

\* ByteView{b: data} and ByteView{s: data}
ViewB(data) == [bnil |-> FALSE, b |-> data, s |-> <<>>]
ViewS(data) == [bnil |-> TRUE, b |-> <<>>, s |-> data]

Views == {ViewB(d) : d \in SeqsUpTo(ByteVals, MaxViewLen)}
             \cup {ViewS(d) : d \in SeqsUpTo(ByteVals, MaxViewLen)}

Min(a, b) == IF a < b THEN a ELSE b

\* v.Len()
ViewLen(v) == IF ~v.bnil THEN Len(v.b) ELSE Len(v.s)

\* v.SliceFrom(from): v.b[from:] or v.s[from:], which panic when from is
\* not in 0 .. len.
SliceFrom(v, from) ==
    IF from < 0 \/ from > ViewLen(v)
    THEN [panic |-> TRUE, v |-> v]
    ELSE [panic |-> FALSE,
          v |-> IF ~v.bnil
                THEN ViewB(SubSeq(v.b, from + 1, Len(v.b)))
                ELSE ViewS(SubSeq(v.s, from + 1, Len(v.s)))]

\* The builtin copy(dest, src): the bytes copied and dest afterwards.
CopyBytes(dest, src) ==
    LET n == Min(Len(dest), Len(src)) IN
    [n |-> n, dest |-> SubSeq(src, 1, n) \o SubSeq(dest, n + 1, Len(dest))]

\* v.Copy(dest)
ViewCopy(v, dest) == CopyBytes(dest, BytesOf(v))

\* Line 129: the guard in front of the copy.  It compares off with the
\* length of p.
PastEnd(v, p, off) == off >= Len(p)

\* v.ReadAt(p, off): n, err, p afterwards, and whether it panicked.
ReadAt(v, p, off) ==
    IF off < 0
    THEN [n |-> 0, err |-> "invalid offset", p |-> p, panic |-> FALSE]
    ELSE IF PastEnd(v, p, off)
    THEN [n |-> 0, err |-> "EOF", p |-> p, panic |-> FALSE]
    ELSE LET from == SliceFrom(v, off) IN
         IF from.panic
         THEN [n |-> 0, err |-> "nil", p |-> p, panic |-> TRUE]
         ELSE LET c == ViewCopy(from.v, p) IN
              [n |-> c.n, err |-> IF c.n < Len(p) THEN "EOF" ELSE "nil",
               p |-> c.dest, panic |-> FALSE]

\* make([]byte, n)
MakeBytes(n) == [i \in 1 .. n |-> 0]

NoRead == [called |-> FALSE, plen |-> 0, off |-> 0,
           res |-> [n |-> 0, err |-> "nil", p |-> <<>>, panic |-> FALSE]]

ReadIdle ==
    /\ view = ViewS(<<>>)
    /\ readLast = NoRead

\* A caller reads into a fresh buffer of plen bytes at offset off.
ReadAtCall(plen, off) ==
    /\ readLast' = [called |-> TRUE, plen |-> plen, off |-> off,
                    res |-> ReadAt(view, MakeBytes(plen), off)]
    /\ UNCHANGED view

(***************************************************************************)
(* Sinks.  A byte slice is [buf, len]: the first len bytes of the backing  *)
(* array heap[buf]; two slices share storage when they have the same buf.  *)
(* The nil slice has buf = 0.  A ByteView held by a sink is [b, s] with b  *)
(* a slice.  An operation yields the state afterwards and its error:       *)
(* "nil" for success, "panic" for a nil pointer dereference (the state is  *)
(* the one reached when it happened).                                      *)
(***************************************************************************)
NilSlice == [buf |-> 0, len |-> 0]

\* The bytes of slice sl.
Contents(h, sl) == IF sl.buf = 0 THEN <<>> ELSE SubSeq(h[sl.buf], 1, sl.len)

\* A new backing array holding data (make, []byte(str), the result of
\* proto.Marshal): the heap afterwards and the slice over the array.
NewBytes(h, data) ==
    [heap |-> Append(h, data), slice |-> [buf |-> Len(h) + 1, len |-> Len(data)]]

\* cloneBytes(b).  (Faulty variant: the slice itself is returned.)
cloneBytesShared(h, b) == [heap |-> h, slice |-> b]
cloneBytes(h, b) == NewBytes(h, Contents(h, b))

\* The zero ByteView, and a held ByteView with its slice read out.
ZeroView == [b |-> NilSlice, s |-> <<>>]
Resolve(h, v) == [bnil |-> v.b.buf = 0, b |-> Contents(h, v.b), s |-> v.s]

\* proto.Marshal and proto.Unmarshal, for a message type with one field of
\* bytes: the encoding is the field's length and then its bytes.  A message
\* that cannot be encoded stands for Marshal's error return.
Unencodable == <<0>>
Msgs == SeqsUpTo(ByteVals, MaxViewLen - 1) \cup {Unencodable}
Marshal(msg) ==
    IF msg = Unencodable THEN [err |-> "marshal", b |-> <<>>]
    ELSE [err |-> "nil", b |-> <<Len(msg)>> \o msg]
Unmarshal(b) ==
    IF Len(b) >= 1 /\ b[1] = Len(b) - 1
    THEN [err |-> "nil", msg |-> Tail(b)]
    ELSE [err |-> "unmarshal", msg |-> <<>>]

Ret(st, err) == [st |-> st, err |-> err]

\* stringSink
StringSetString(st, str) ==
    LET set == [st EXCEPT !.sink.v = [b |-> NilSlice, s |-> str]] IN
    IF st.sink.dstNil THEN Ret(set, "panic")
    ELSE Ret([set EXCEPT !.dst.str = str], "nil")

StringSetBytes(st, b) == StringSetString(st, Contents(st.heap, b))

StringSetProto(st, msg) ==
    LET enc == Marshal(msg) IN
    IF enc.err # "nil" THEN Ret(st, enc.err)
    ELSE LET nb == NewBytes(st.heap, enc.b)
             set == [st EXCEPT !.heap = nb.heap, !.sink.v.b = nb.slice]
         IN  IF st.sink.dstNil THEN Ret(set, "panic")
             ELSE Ret([set EXCEPT !.dst.str = enc.b], "nil")

\* byteViewSink
ViewSetProto(st, msg) ==
    LET enc == Marshal(msg) IN
    IF enc.err # "nil" THEN Ret(st, enc.err)
    ELSE LET nb == NewBytes(st.heap, enc.b) IN
         Ret([st EXCEPT !.heap = nb.heap, !.dst.view = [b |-> nb.slice, s |-> <<>>]], "nil")

ViewSetView(st, v) == Ret([st EXCEPT !.dst.view = v], "nil")

ViewSetBytes(st, b) ==
    LET c == cloneBytes(st.heap, b) IN
    Ret([st EXCEPT !.heap = c.heap, !.dst.view = [b |-> c.slice, s |-> <<>>]], "nil")

ViewSetString(st, str) == Ret([st EXCEPT !.dst.view = [b |-> NilSlice, s |-> str]], "nil")

\* protoSink
ProtoSetProto(st, msg) ==
    LET enc == Marshal(msg) IN
    IF enc.err # "nil" THEN Ret(st, enc.err)
    ELSE LET dec == Unmarshal(enc.b)
             nb == NewBytes(st.heap, enc.b)
         IN  IF dec.err # "nil" THEN Ret(st, dec.err)
             ELSE Ret([st EXCEPT !.heap = nb.heap, !.dst.msg = dec.msg,
                                 !.sink.v = [b |-> nb.slice, s |-> <<>>]], "nil")

ProtoSetBytes(st, b) ==
    LET dec == Unmarshal(Contents(st.heap, b))
        c == cloneBytes(st.heap, b)
    IN  IF dec.err # "nil" THEN Ret(st, dec.err)
        ELSE Ret([st EXCEPT !.heap = c.heap, !.dst.msg = dec.msg,
                            !.sink.v = [b |-> c.slice, s |-> <<>>]], "nil")

ProtoSetString(st, str) ==
    LET nb == NewBytes(st.heap, str)
        dec == Unmarshal(str)
    IN  IF dec.err # "nil" THEN Ret(st, dec.err)
        ELSE Ret([st EXCEPT !.heap = nb.heap, !.dst.msg = dec.msg,
                            !.sink.v = [b |-> nb.slice, s |-> <<>>]], "nil")

\* allocBytesSink
AllocSetBytesOwned(st, b) ==
    IF st.sink.dstNil THEN Ret(st, "nil dst")
    ELSE LET c == cloneBytes(st.heap, b) IN
         Ret([st EXCEPT !.heap = c.heap, !.dst.slice = c.slice,
                        !.sink.v = [b |-> b, s |-> <<>>]], "nil")

AllocSetProto(st, msg) ==
    LET enc == Marshal(msg) IN
    IF enc.err # "nil" THEN Ret(st, enc.err)
    ELSE LET nb == NewBytes(st.heap, enc.b) IN
         AllocSetBytesOwned([st EXCEPT !.heap = nb.heap], nb.slice)

AllocSetView(st, v) ==
    IF st.sink.dstNil THEN Ret(st, "panic")
    ELSE LET c == IF v.b.buf # 0 THEN cloneBytes(st.heap, v.b)
                  ELSE NewBytes(st.heap, v.s)
         IN  Ret([st EXCEPT !.heap = c.heap, !.dst.slice = c.slice, !.sink.v = v], "nil")

AllocSetBytes(st, b) ==
    LET c == cloneBytes(st.heap, b) IN
    AllocSetBytesOwned([st EXCEPT !.heap = c.heap], c.slice)

AllocSetString(st, str) ==
    IF st.sink.dstNil THEN Ret(st, "nil dst")
    ELSE LET nb == NewBytes(st.heap, str) IN
         Ret([st EXCEPT !.heap = nb.heap, !.dst.slice = nb.slice,
                        !.sink.v = [b |-> NilSlice, s |-> str]], "nil")

\* truncBytesSink.  copy(*sk.dst, data) writes into the backing array of
\* the destination.
CopySlice(h, sl, data) ==
    LET c == CopyBytes(Contents(h, sl), data) IN
    [n |-> c.n,
     heap |-> IF sl.buf = 0 THEN h
              ELSE [h EXCEPT ![sl.buf] = c.dest \o SubSeq(@, sl.len + 1, Len(@))]]

\* Lines 270-272 and 283-285: (*sk.dst)[:n] when n < len(*sk.dst).  (Faulty
\* variant: the destination keeps its length.)
ShrinkNever(sl, n) == sl
Shrink(sl, n) == IF n < sl.len THEN [sl EXCEPT !.len = n] ELSE sl

TruncSetBytesOwned(st, b) ==
    IF st.sink.dstNil THEN Ret(st, "nil dst")
    ELSE LET c == CopySlice(st.heap, st.dst.slice, Contents(st.heap, b)) IN
         Ret([st EXCEPT !.heap = c.heap, !.dst.slice = Shrink(@, c.n),
                        !.sink.v = [b |-> b, s |-> <<>>]], "nil")

TruncSetProto(st, msg) ==
    LET enc == Marshal(msg) IN
    IF enc.err # "nil" THEN Ret(st, enc.err)
    ELSE LET nb == NewBytes(st.heap, enc.b) IN
         TruncSetBytesOwned([st EXCEPT !.heap = nb.heap], nb.slice)

TruncSetBytes(st, b) ==
    LET c == cloneBytes(st.heap, b) IN
    TruncSetBytesOwned([st EXCEPT !.heap = c.heap], c.slice)

TruncSetString(st, str) ==
    IF st.sink.dstNil THEN Ret(st, "nil dst")
    ELSE LET c == CopySlice(st.heap, st.dst.slice, str) IN
         Ret([st EXCEPT !.heap = c.heap, !.dst.slice = Shrink(@, c.n),
                        !.sink.v = [b |-> NilSlice, s |-> str]], "nil")

\* The methods of the Sink interface, by the sink's type.
SinkKinds == {"string", "byteView", "proto", "alloc", "trunc"}

SetProto(st, msg) ==
    CASE st.sink.kind = "string" -> StringSetProto(st, msg)
      [] st.sink.kind = "byteView" -> ViewSetProto(st, msg)
      [] st.sink.kind = "proto" -> ProtoSetProto(st, msg)
      [] st.sink.kind = "alloc" -> AllocSetProto(st, msg)
      [] st.sink.kind = "trunc" -> TruncSetProto(st, msg)

SetBytes(st, b) ==
    CASE st.sink.kind = "string" -> StringSetBytes(st, b)
      [] st.sink.kind = "byteView" -> ViewSetBytes(st, b)
      [] st.sink.kind = "proto" -> ProtoSetBytes(st, b)
      [] st.sink.kind = "alloc" -> AllocSetBytes(st, b)
      [] st.sink.kind = "trunc" -> TruncSetBytes(st, b)

SetString(st, str) ==
    CASE st.sink.kind = "string" -> StringSetString(st, str)
      [] st.sink.kind = "byteView" -> ViewSetString(st, str)
      [] st.sink.kind = "proto" -> ProtoSetString(st, str)
      [] st.sink.kind = "alloc" -> AllocSetString(st, str)
      [] st.sink.kind = "trunc" -> TruncSetString(st, str)

\* view()
SinkView(st) == IF st.sink.kind = "byteView" THEN st.dst.view ELSE st.sink.v

\* The bytes of the ByteView that view() returns.
SinkContent(st) == BytesOf(Resolve(st.heap, SinkView(st)))

\* setSinkView(sink, v): the sinks with a setView method are byteViewSink
\* and allocBytesSink.
setSinkView(st, v) ==
    IF st.sink.kind = "byteView" THEN ViewSetView(st, v)
    ELSE IF st.sink.kind = "alloc" THEN AllocSetView(st, v)
    ELSE IF v.b.buf # 0 THEN SetBytes(st, v.b)
    ELSE SetString(st, v.s)

\* The sink, the memory and the destination together.
Machine == [heap |-> heap, sink |-> sink, dst |-> dst]

NoDelivery == [op |-> "New", err |-> "nil", source |-> <<>>, L |-> 0,
               before |-> <<>>, after |-> <<>>, dstAfter |-> <<>>]

\* StringSink, ByteViewSink, ProtoSink, AllocatingByteSliceSink and
\* TruncatingByteSliceSink: a sink of the kind, built with a nil pointer or
\* with a pointer to a fresh variable; for the truncating sink the variable
\* holds make([]byte, len0).
InitSinkWith(kind, dstNil, len0) ==
    /\ sink = [kind |-> kind, dstNil |-> dstNil, v |-> ZeroView]
    /\ heap = IF kind = "trunc" /\ ~dstNil THEN <<MakeBytes(len0)>> ELSE <<>>
    /\ dst = [str |-> <<>>, view |-> ZeroView, msg |-> <<>>,
              slice |-> IF kind = "trunc" /\ ~dstNil
                        THEN [buf |-> 1, len |-> len0] ELSE NilSlice]
    /\ callerBuf = NilSlice
    /\ sinkLast = NoDelivery
    /\ nsets = 0

SinkIdle == InitSinkWith("string", FALSE, 0)

\* The state and the history after delivery op with result r of a value
\* whose bytes are source; b is the slice the caller passed, if any.
Deliver(op, r, source, b) ==
    /\ nsets < MaxSets
    /\ nsets' = nsets + 1
    /\ heap' = r.st.heap
    /\ sink' = r.st.sink
    /\ dst' = r.st.dst
    /\ callerBuf' = b
    /\ sinkLast' = [op |-> op, err |-> r.err, source |-> source, L |-> dst.slice.len,
                    before |-> SinkContent(Machine), after |-> SinkContent(r.st),
                    dstAfter |-> Contents(r.st.heap, r.st.dst.slice)]

\* The caller fills a buffer b of its own with data and calls SetBytes(b).
SinkSetBytes(data) ==
    LET nb == NewBytes(heap, data) IN
    Deliver("SetBytes", SetBytes([Machine EXCEPT !.heap = nb.heap], nb.slice), data, nb.slice)

\* The caller calls SetString(str).
SinkSetString(str) == Deliver("SetString", SetString(Machine, str), str, NilSlice)

\* The caller calls SetProto(msg).
SinkSetProto(msg) == Deliver("SetProto", SetProto(Machine, msg), Marshal(msg).b, NilSlice)

\* The group calls setSinkView with a cached view cv, whose bytes are the
\* cache's.
SinkSetView(cv) ==
    LET nb == NewBytes(heap, cv.b) IN
    IF cv.bnil
    THEN Deliver("setSinkView", setSinkView(Machine, [b |-> NilSlice, s |-> cv.s]),
                 cv.s, NilSlice)
    ELSE Deliver("setSinkView",
                 setSinkView([Machine EXCEPT !.heap = nb.heap], [b |-> nb.slice, s |-> <<>>]),
                 cv.b, NilSlice)

\* The byte a caller writes over its buffers after the delivery.
Scribble == 255

Overwritten(h, sl) == [h EXCEPT ![sl.buf] = [i \in DOMAIN @ |-> Scribble]]

\* The caller overwrites the buffer it passed to SetBytes.
MutateSrc ==
    /\ callerBuf.buf # 0
    /\ heap' = Overwritten(heap, callerBuf)
    /\ heap' # heap
    /\ UNCHANGED <<sink, dst, callerBuf, sinkLast, nsets>>

\* The caller overwrites the array of the slice in its destination variable.
MutateDst ==
    /\ dst.slice.buf # 0
    /\ heap' = Overwritten(heap, dst.slice)
    /\ heap' # heap
    /\ UNCHANGED <<sink, dst, callerBuf, sinkLast, nsets>>

(***************************************************************************)
(* The specifications: one per component, the others left as constructed.  *)
(***************************************************************************)
RestIdle == RegIdle /\ ReadIdle /\ SinkIdle

FlightIdle ==
    /\ mu = 0
    /\ callMapMade = FALSE
    /\ callMap = <<>>
    /\ calls = <<>>
    /\ pc = [p \in Procs |-> "idle"]
    /\ key = [p \in Procs |-> 1]
    /\ call = [p \in Procs |-> 0]
    /\ ret = [p \in Procs |-> NoOut]
    /\ hist = <<>>
    /\ role = [p \in Procs |-> "none"]
    /\ atCall = [p \in Procs |-> [returned |-> {}, removed |-> {}]]

LruIdle == InitLruWith(0, FALSE)

RingIdle == InitRingWith(1, "sum")

InitFlight == FlightIdle /\ LruIdle /\ RingIdle /\ RestIdle

NextFlight ==
    \/ \E p \in Procs, k \in Keys : DoCall(p, k) /\ UNCHANGED <<lruVars, ringVars, restVars>>
    \/ \E p \in Procs : Lock61(p) /\ UNCHANGED <<lruVars, ringVars, restVars>>
    \/ \E p \in Procs : Join(p) /\ UNCHANGED <<lruVars, ringVars, restVars>>
    \/ \E p \in Procs : Register(p) /\ UNCHANGED <<lruVars, ringVars, restVars>>
    \/ \E p \in Procs : Wait(p) /\ UNCHANGED <<lruVars, ringVars, restVars>>
    \/ \E p \in Procs, r \in FnResults : FnReturn(p, r) /\ UNCHANGED <<lruVars, ringVars, restVars>>
    \/ \E p \in Procs : WgDone(p) /\ UNCHANGED <<lruVars, ringVars, restVars>>
    \/ \E p \in Procs : Lock77(p) /\ UNCHANGED <<lruVars, ringVars, restVars>>
    \/ \E p \in Procs : Deregister(p) /\ UNCHANGED <<lruVars, ringVars, restVars>>

SpecFlight == InitFlight /\ [][NextFlight]_vars

\* A load of a key in StalledKeys may run forever; every other step is taken
\* when it can be.  sync.Mutex hands the lock to a waiting goroutine (its
\* starvation mode), the Go scheduler runs every runnable goroutine.
StalledKeys == {1}

FairFlight ==
    \A p \in Procs :
        /\ SF_vars(Lock61(p) /\ UNCHANGED <<lruVars, ringVars, restVars>>)
        /\ SF_vars(Lock77(p) /\ UNCHANGED <<lruVars, ringVars, restVars>>)
        /\ WF_vars(Join(p) /\ UNCHANGED <<lruVars, ringVars, restVars>>)
        /\ WF_vars(Register(p) /\ UNCHANGED <<lruVars, ringVars, restVars>>)
        /\ WF_vars(Wait(p) /\ UNCHANGED <<lruVars, ringVars, restVars>>)
        /\ WF_vars(WgDone(p) /\ UNCHANGED <<lruVars, ringVars, restVars>>)
        /\ WF_vars(Deregister(p) /\ UNCHANGED <<lruVars, ringVars, restVars>>)
        /\ WF_vars(/\ key[p] \notin StalledKeys
                   /\ \E r \in FnResults : FnReturn(p, r)
                   /\ UNCHANGED <<lruVars, ringVars, restVars>>)

SpecStall == InitFlight /\ [][NextFlight]_vars /\ FairFlight

\* Every load function returns, and every step of Do is taken when it can
\* be.  A goroutine is at one line of Do at a time, so at most one of its
\* steps is enabled: fairness is asked of its Lock steps together (strong:
\* sync.Mutex hands the lock to a waiting goroutine) and of its other steps
\* together (weak: the scheduler runs every runnable goroutine).
LockStep(p) == Lock61(p) \/ Lock77(p)

OtherStep(p) ==
    \/ Join(p) \/ Register(p) \/ Wait(p) \/ WgDone(p) \/ Deregister(p)
    \/ \E r \in FnResults : FnReturn(p, r)

FairDo ==
    \A p \in Procs :
        /\ SF_vars(LockStep(p) /\ UNCHANGED <<lruVars, ringVars, restVars>>)
        /\ WF_vars(OtherStep(p) /\ UNCHANGED <<lruVars, ringVars, restVars>>)

SpecFair == InitFlight /\ [][NextFlight]_vars /\ FairDo

InitLru ==
    /\ FlightIdle
    /\ RingIdle
    /\ RestIdle
    /\ \E maxEntries \in 0 .. MaxCap, onEvicted \in BOOLEAN :
        InitLruWith(maxEntries, onEvicted)

NextLru ==
    \/ \E k \in CacheKeys, v \in CacheVals : LruAdd(k, v) /\ UNCHANGED <<flightVars, ringVars, restVars>>
    \/ \E k \in CacheKeys : LruGet(k) /\ UNCHANGED <<flightVars, ringVars, restVars>>
    \/ \E k \in CacheKeys : LruRemove(k) /\ UNCHANGED <<flightVars, ringVars, restVars>>
    \/ LruRemoveOldest /\ UNCHANGED <<flightVars, ringVars, restVars>>
    \/ LruClear /\ UNCHANGED <<flightVars, ringVars, restVars>>

SpecLru == InitLru /\ [][NextLru]_vars

InitRing ==
    /\ FlightIdle
    /\ LruIdle
    /\ RestIdle
    /\ \E replicas \in 1 .. MaxReplicas, hashFn \in HashFns :
        InitRingWith(replicas, hashFn)

\* One process building its ring.
NextRing ==
    \E peers \in SeqsUpTo(Peers, MaxAddLen) :
        RingAdd(1, peers) /\ UNCHANGED <<flightVars, lruVars, restVars>>

SpecRing == InitRing /\ [][NextRing]_vars

\* Two processes building their rings, with the same replica count and hash.
NextRingPair ==
    \E i \in RingIds, peers \in SeqsUpTo(Peers, MaxAddLen) :
        RingAdd(i, peers) /\ UNCHANGED <<flightVars, lruVars, restVars>>

SpecRingPair == InitRing /\ [][NextRingPair]_vars

InitReg == FlightIdle /\ LruIdle /\ RingIdle /\ RestIdle

NextReg ==
    \/ \E fn \in PickerFns : RegisterPeerPicker(fn) /\ UNCHANGED <<coreVars, readVars, sinkVars>>
    \/ \E fn \in PickerFns : RegisterPerGroupPeerPicker(fn) /\ UNCHANGED <<coreVars, readVars, sinkVars>>

SpecReg == InitReg /\ [][NextReg]_vars

\* ReadAt calls on a ByteView of any content, in either representation.
InitRead ==
    /\ FlightIdle /\ LruIdle /\ RingIdle /\ RegIdle /\ SinkIdle
    /\ view \in Views
    /\ readLast = NoRead

NextRead ==
    \E plen \in 0 .. MaxBufLen, off \in -1 .. MaxViewLen + 1 :
        ReadAtCall(plen, off) /\ UNCHANGED <<coreVars, regVars, sinkVars>>

SpecRead == InitRead /\ [][NextRead]_vars

\* A sink of any kind, the value delivered to it, and what its caller does
\* to its own buffers afterwards.
InitSink ==
    /\ FlightIdle /\ LruIdle /\ RingIdle /\ RegIdle /\ ReadIdle
    /\ \/ \E kind \in SinkKinds : InitSinkWith(kind, FALSE, 0)
       \/ \E kind \in {"string", "alloc", "trunc"} : InitSinkWith(kind, TRUE, 0)
       \/ \E len0 \in 1 .. MaxBufLen : InitSinkWith("trunc", FALSE, len0)

NextSink ==
    \/ \E data \in SeqsUpTo(ByteVals, MaxViewLen) :
          SinkSetBytes(data) /\ UNCHANGED <<coreVars, regVars, readVars>>
    \/ \E str \in SeqsUpTo(ByteVals, MaxViewLen) :
          SinkSetString(str) /\ UNCHANGED <<coreVars, regVars, readVars>>
    \/ \E msg \in Msgs : SinkSetProto(msg) /\ UNCHANGED <<coreVars, regVars, readVars>>
    \/ \E cv \in Views : SinkSetView(cv) /\ UNCHANGED <<coreVars, regVars, readVars>>
    \/ MutateSrc /\ UNCHANGED <<coreVars, regVars, readVars>>
    \/ MutateDst /\ UNCHANGED <<coreVars, regVars, readVars>>

SpecSink == InitSink /\ [][NextSink]_vars

\* The whole program: the components side by side.
Init ==
    /\ FlightIdle
    /\ \E maxEntries \in 0 .. MaxCap, onEvicted \in BOOLEAN :
        InitLruWith(maxEntries, onEvicted)
    /\ \E replicas \in 1 .. MaxReplicas, hashFn \in HashFns :
        InitRingWith(replicas, hashFn)
    /\ RestIdle

Next == NextFlight \/ NextLru \/ NextRingPair \/ NextReg \/ NextRead \/ NextSink

Spec == Init /\ [][Next]_vars

(***************************************************************************)
(* The claims.                                                             *)
(***************************************************************************)
\* The goroutines that own a registered record: from its registration to
\* its removal from callMap.
Owners(k) == {p \in Procs : key[p] = k /\ pc[p] \in {"L74", "L75", "L77", "L78"}}

\* C1: for every key, at most one load function started by Do is running,
\* and at most one goroutine owns a registered call record, which is the
\* one callMap holds for the key.
C1_OneLoadPerKey ==
    \A k \in Keys :
        /\ Cardinality({p \in Procs : key[p] = k /\ pc[p] = "L74"}) <= 1
        /\ Cardinality(Owners(k)) <= 1
        /\ \A p \in Owners(k) : k \in DOMAIN callMap /\ callMap[k] = call[p]

\* C1 witness: two concurrent calls for one key, one running the load, the
\* other collapsed onto it.
C1_Witness ==
    \E p, q \in Procs :
        /\ p # q /\ key[p] = key[q]
        /\ pc[p] = "L74" /\ pc[q] = "L67" /\ call[q] = call[p]

\* C2: a call that found a record never runs a load function of its own,
\* returns only once the record's load has returned, and returns the pair
\* that load produced; so do all the calls that share the record.
C2_WaitersShareResult ==
    /\ \A p \in Procs :
        role[p] = "waiter" =>
            /\ \A c \in DOMAIN hist : hist[c].by # p
            /\ hist[call[p]].key = key[p]
    /\ \A p \in Procs :
        pc[p] = "done" =>
            /\ hist[call[p]].out # NoOut
            /\ ret[p] = hist[call[p]].out
    /\ \A p, q \in Procs :
        (pc[p] = "done" /\ pc[q] = "done" /\ call[p] = call[q]) => ret[p] = ret[q]

\* C2 witness: a waiter that blocked during the load has returned the
\* load's error.
C2_Witness ==
    \E p \in Procs :
        /\ role[p] = "waiter" /\ pc[p] = "done"
        /\ atCall[p].returned = {}
        /\ ret[p] = <<"nil", "load failed">>

C4_DistinctKeysDontBlock ==
    /\ mu # 0 => pc[mu] \in {"L62", "L78"}
    /\ \A p \in Procs :
        pc[p] = "L67" =>
            /\ hist[call[p]].key = key[p]
            /\ \/ calls[call[p]].wg = 0
               \/ \E q \in Procs : /\ call[q] = call[p] /\ key[q] = key[p]
                                   /\ pc[q] \in {"L74", "L75"}

\* C4 witness: while a load of one key is running, a call for another key
\* that registered after it has run its own load and returned.
C4_Witness ==
    \E p, q \in Procs :
        /\ pc[p] = "L74" /\ key[q] # key[p]
        /\ pc[q] = "done" /\ role[q] = "executor" /\ call[q] > call[p]

\* C4, as a liveness property of SpecStall: with the loads of the stalled
\* keys running forever, every call for another key returns.
C4_OtherKeysReturn ==
    \A p \in Procs :
        (pc[p] = "L61" /\ key[p] \notin StalledKeys) ~> (pc[p] = "done")

\* The keys of the list, front first.
ListKeys(l) == [i \in DOMAIN l |-> l[i].key]
Reverse(q) == [i \in DOMAIN q |-> q[Len(q) + 1 - i]]

\* C5: with MaxEntries = C > 0, Len() <= C after every operation.
C5_LenWithinCapacity ==
    lru.MaxEntries > 0 => LruLen(lru) <= lru.MaxEntries

\* C5 witness: an Add into a full cache has evicted an entry and left the
\* cache full.
C5_Witness ==
    /\ lru.MaxEntries > 0
    /\ last.op = "Add" /\ last.hooked # <<>>
    /\ LruLen(lru) = lru.MaxEntries

\* C6: after N distinct keys were added and nothing else was called, into
\* a cache of capacity C > 0 with OnEvicted set, OnEvicted was called for
\* the first N-C keys added, once each and in that order (for none when
\* N <= C), and the cache holds the last C keys added.
C6_EvictsInInsertionOrder ==
    (run.valid /\ lru.OnEvicted /\ lru.MaxEntries > 0) =>
        LET N == Len(run.added)
            C == lru.MaxEntries
            gone == IF N > C THEN N - C ELSE 0
        IN  /\ run.evicted = SubSeq(run.added, 1, gone)
            /\ ListKeys(lru.dll) = Reverse(SubSeq(run.added, gone + 1, N))
            /\ lru.cache = {run.added[i] : i \in gone + 1 .. N}

\* C6 witness: at least two keys more than the capacity were added.
C6_Witness ==
    /\ run.valid /\ lru.OnEvicted /\ lru.MaxEntries > 0
    /\ Len(run.added) >= lru.MaxEntries + 2
    /\ Len(run.evicted) >= 2

\* What Get(k) returns according to the Adds and Removes made so far.
Expected(k) ==
    IF k \in DOMAIN shadow.map THEN <<shadow.map[k], TRUE>> ELSE <<"nil", FALSE>>

\* C7: with MaxEntries = 0, after Adds, Gets and Removes only, Get(k) hits
\* exactly the keys added and not removed since, with the value of the last
\* Add; the cache holds all of them, and no Add calls OnEvicted.
C7_UnlimitedCacheIsAMap ==
    (lru.MaxEntries = 0 /\ shadow.valid) =>
        /\ \A k \in CacheKeys : GetResult(lru, k) = Expected(k)
        /\ last.op = "Get" => last.res = Expected(last.key)
        /\ last.op = "Add" => last.hooked = <<>>
        /\ LruLen(lru) = Cardinality(DOMAIN shadow.map)

\* C7 witness: more keys than any capacity of the model are held, and a Get
\* has returned a value that replaced an earlier one.
C7_Witness ==
    /\ lru.MaxEntries = 0 /\ shadow.valid /\ lru.OnEvicted
    /\ LruLen(lru) > MaxCap
    /\ last.op = "Get" /\ last.res = <<"y", TRUE>>
    /\ \E i \in DOMAIN lru.dll : lru.dll[i].value = "x"

\* The hashes of the virtual nodes of a ring.
VNodes(m) == {m.keys[i] : i \in DOMAIN m.keys}
Least(S) == CHOOSE x \in S : \A y \in S : x <= y

\* The owner of key k by the ring's definition: the peer mapped to the
\* least virtual-node hash at or after hash(k), or to the least hash of the
\* ring when there is none.
Owner(m, k) ==
    LET atOrAfter == {x \in VNodes(m) : x >= Hash(m, k)} IN
    m.hashMap[IF atOrAfter # {} THEN Least(atOrAfter) ELSE Least(VNodes(m))]

\* C8: on a non-empty ring Get returns, for every key, the peer mapped to
\* the least virtual-node hash >= hash(key), wrapping to the least hash of
\* the ring; on an empty ring it returns "".
C8_GetFindsSuccessor ==
    \A i \in RingIds, k \in LookupKeys :
        MapGet(ring[i], k) = IF IsEmpty(ring[i]) THEN <<>> ELSE Owner(ring[i], k)

\* C8 witness: a ring of two peers on which one key hashes above every
\* virtual node (and wraps), one onto a virtual node and one below all.
C8_Witness ==
    /\ Cardinality(members[1]) >= 2
    /\ \E k \in LookupKeys : \A x \in VNodes(ring[1]) : Hash(ring[1], k) > x
    /\ \E k \in LookupKeys : Hash(ring[1], k) \in VNodes(ring[1])
    /\ \E k \in LookupKeys :
        /\ \E x \in VNodes(ring[1]) : x < Hash(ring[1], k)
        /\ \E x \in VNodes(ring[1]) : x > Hash(ring[1], k)
        /\ Hash(ring[1], k) \notin VNodes(ring[1])

\* C9 as claimed: two rings with the same replica count, hash and set of
\* peers return the same owner for every key.
C9_SamePeersSameOwners ==
    members[1] = members[2] =>
        \A k \in LookupKeys : MapGet(ring[1], k) = MapGet(ring[2], k)

\* C10: after an Add of peers none of which was in the ring (one new peer
\* in particular), every key is owned by its owner before the Add or by a
\* peer just added: no key moves between two peers that were there before.
C10_AddMovesKeysOnlyToNewPeer ==
    \A i \in RingIds :
        LET new == {before[i].added[j] : j \in DOMAIN before[i].added} IN
        (new # {} /\ new \cap before[i].members = {}) =>
            \A k \in LookupKeys :
                MapGet(ring[i], k) \in {MapGet(before[i].map, k)} \cup new

\* C10 witness: a peer was added to a ring of two peers; one key moved to
\* it and another stayed with its owner.
C10_Witness ==
    /\ Len(before[1].added) = 1 /\ before[1].added[1] \notin before[1].members
    /\ Cardinality(before[1].members) = 2
    /\ \E k \in LookupKeys :
        /\ MapGet(ring[1], k) = before[1].added[1]
        /\ MapGet(before[1].map, k) # before[1].added[1]
    /\ \E k \in LookupKeys :
        /\ MapGet(ring[1], k) # before[1].added[1]
        /\ MapGet(ring[1], k) = MapGet(before[1].map, k)

\* C11: registration is set-once.  In any sequence of RegisterPeerPicker and
\* RegisterPerGroupPeerPicker calls, with any arguments, the first call
\* succeeds and every later call panics, and portPicker stays what the first
\* call stored.
C11_SetOnce ==
    /\ \A i \in DOMAIN regLog : (regLog[i].outcome = "ok") <=> (i = 1)
    /\ regLog # <<>> => portPicker = regLog[1].picker

\* What the guard of lines 40 and 54 does give: once a call has stored a
\* non-nil function, every later call panics and portPicker keeps that
\* function.
C11_SetOnceOnceNonNil ==
    \A i \in DOMAIN regLog :
        (regLog[i].outcome = "ok" /\ regLog[i].picker # NilPicker) =>
            /\ portPicker = regLog[i].picker
            /\ \A j \in DOMAIN regLog : j > i => regLog[j].outcome = "panic"

\* A second call that panicked after a first one that registered a factory.
C11_PanicReached ==
    /\ Len(regLog) >= 2
    /\ regLog[1].outcome = "ok" /\ regLog[1].picker # NilPicker
    /\ regLog[2].outcome = "panic"

\* C12: ByteView.ReadAt(p, off).  A negative off returns n = 0 and an error;
\* off at or past the content length returns (0, EOF) without panicking; for
\* 0 <= off < content length it copies min(len(p), Len - off) bytes starting
\* at content index off into p, and reports EOF exactly when fewer than
\* len(p) bytes were copied.
C12_ReadAtContract ==
    LET r == readLast.res
        off == readLast.off
        plen == readLast.plen
        content == BytesOf(view)
        L == ViewLen(view)
    IN  readLast.called =>
            /\ ~r.panic
            /\ off < 0 => r.n = 0 /\ r.err # "nil"
            /\ off >= L => r.n = 0 /\ r.err = "EOF"
            /\ (0 <= off /\ off < L) =>
                  /\ r.n = Min(plen, L - off)
                  /\ \A i \in 1 .. r.n : r.p[i] = content[off + i]
                  /\ (r.err = "EOF") <=> (r.n < plen)
                  /\ r.err \in {"nil", "EOF"}

\* What ReadAt does give: the claimed result whenever off is less than
\* len(p) and at most the content length, and (0, EOF) whenever off is at
\* least len(p).
C12_ReadAtWithinBuffer ==
    LET r == readLast.res
        off == readLast.off
        plen == readLast.plen
        content == BytesOf(view)
        L == ViewLen(view)
    IN  readLast.called =>
            /\ off < 0 => ~r.panic /\ r.n = 0 /\ r.err = "invalid offset"
            /\ off >= plen => ~r.panic /\ r.n = 0 /\ r.err = "EOF"
            /\ (0 <= off /\ off < plen /\ off <= L) =>
                  /\ ~r.panic
                  /\ r.n = Min(plen, L - off)
                  /\ \A i \in 1 .. r.n : r.p[i] = content[off + i]
                  /\ (r.err = "EOF") <=> (r.n < plen)
            /\ (off < plen /\ off > L) => r.panic

\* A read at offset 1 of a two-byte content into a two-byte buffer: one byte
\* is copied and EOF reported.
C12_FullReadReached ==
    /\ readLast.called /\ readLast.off = 1 /\ readLast.plen = 2
    /\ ViewLen(view) = 2 /\ readLast.res.n = 1 /\ readLast.res.err = "EOF"

\* C13: TruncatingByteSliceSink.  After a successful delivery of a source of
\* m bytes into a destination whose length before the call was L, the
\* destination has length min(L, m), its bytes are the first min(L, m)
\* bytes of the source, and view() returns the whole source.
C13_TruncatingSink ==
    (sink.kind = "trunc" /\ sinkLast.op # "New" /\ sinkLast.err = "nil") =>
        LET n == Min(sinkLast.L, Len(sinkLast.source)) IN
        /\ Len(sinkLast.dstAfter) = n
        /\ sinkLast.dstAfter = SubSeq(sinkLast.source, 1, n)
        /\ sinkLast.after = sinkLast.source

\* C13 witness: SetBytes of two bytes into a destination of length one; the
\* destination got the first byte and view() holds both.
C13_Witness ==
    /\ sink.kind = "trunc" /\ sinkLast.op = "SetBytes" /\ sinkLast.err = "nil"
    /\ sinkLast.L = 1 /\ Len(sinkLast.source) = 2
    /\ Len(sinkLast.dstAfter) = 1 /\ Len(sinkLast.after) = 2

\* C14: the value held by a sink is immutable.  For every kind of sink,
\* whatever the caller writes to its buffer b after SetBytes(b), view()
\* returns the bytes it returned when SetBytes returned (b's bytes at the
\* call, when it succeeded); for the allocating sink, after any delivery,
\* whatever the caller writes to the array of *dst, view() returns the same
\* bytes as when the delivery returned.
C14_ViewKeepsItsBytes ==
    /\ sinkLast.op = "SetBytes" =>
          /\ SinkContent(Machine) = sinkLast.after
          /\ sinkLast.err = "nil" => sinkLast.after = sinkLast.source
    /\ (sink.kind = "alloc" /\ sinkLast.op # "New") =>
          SinkContent(Machine) = sinkLast.after

\* C14 witness: an allocating sink after SetBytes(b) of two bytes; the
\* caller has overwritten both b and the array of *dst, and view() still
\* returns the two bytes.
C14_Witness ==
    /\ sink.kind = "alloc" /\ sinkLast.op = "SetBytes" /\ sinkLast.err = "nil"
    /\ Len(sinkLast.source) = 2
    /\ Contents(heap, callerBuf) = <<Scribble, Scribble>>
    /\ Contents(heap, dst.slice) = <<Scribble, Scribble>>
    /\ SinkContent(Machine) = sinkLast.source

\* C15: a string, allocating or truncating sink built with a nil pointer
\* answers every delivery (SetBytes, SetString, SetProto, setSinkView) with
\* an error, not a crash, and view() returns what it returned before.  (A
\* message that cannot be encoded may be answered with the encoder's error.)
C15_NilDestinationIsAnError ==
    (sink.dstNil /\ sinkLast.op # "New") =>
        /\ sinkLast.err \in {"nil dst", "marshal"}
        /\ sinkLast.after = sinkLast.before

\* What the nil checks of lines 217, 227, 266 and 279 do give: the Set
\* methods of the allocating and the truncating sink, and setSinkView on the
\* truncating sink, return an error and leave view() as it was.  The string
\* sink and the allocating sink's setView dereference the nil pointer.
C15_CheckedWhereTested ==
    (sink.dstNil /\ sinkLast.op # "New") =>
        IF sink.kind = "string" \/ (sink.kind = "alloc" /\ sinkLast.op = "setSinkView")
        THEN sinkLast.err \in {"panic", "marshal"}
        ELSE /\ sinkLast.err \in {"nil dst", "marshal"}
             /\ sinkLast.after = sinkLast.before

\* A truncating sink with a nil pointer has returned the error.
C15_ErrorReached ==
    /\ sink.kind = "trunc" /\ sink.dstNil
    /\ sinkLast.op = "SetBytes" /\ sinkLast.err = "nil dst"

\* The keys of the entries of q.
EntryKeys(q) == {q[i].key : i \in DOMAIN q}

\* The entries in use before the last operation that a Get no longer finds.
Left == SelectSeq(last.before, LAMBDA e : ~GetResult(lru, e.key)[2])

\* The keys that successive RemoveOldest calls remove from cache c, in
\* order.
RECURSIVE Drain(_)
Drain(c) ==
    LET c2 == RemoveOldest(Running(c)).c
        gone == {k \in CacheKeys : GetResult(c, k)[2] /\ ~GetResult(c2, k)[2]}
    IN  IF gone = {} THEN <<>> ELSE <<CHOOSE k \in gone : TRUE>> \o Drain(c2)

\* C16: recency.  The entry removed by an over-capacity Add or by
\* RemoveOldest is the entry in use whose last Add or successful Get is the
\* oldest; after an Add(k, ...) or a successful Get(k), k is the last of the
\* entries that evictions would remove, and they remove the entries in the
\* order of their last use, oldest first.
C16_EvictsLeastRecentlyUsed ==
    LET order == Drain(lru) IN
    /\ (last.op \in {"Add", "RemoveOldest"} /\ last.before # <<>>) =>
          LET oldest == last.before[Len(last.before)] IN
          /\ EntryKeys(Left) \subseteq {oldest.key}
          /\ last.op = "RemoveOldest" => EntryKeys(Left) = {oldest.key}
    /\ (last.op = "Add" \/ (last.op = "Get" /\ last.res[2])) =>
          /\ present # <<>> /\ present[1].key = last.key
          /\ order # <<>> /\ order[Len(order)] = last.key
    /\ order = [i \in DOMAIN present |-> present[Len(present) + 1 - i].key]

\* C16 witness: a full cache of capacity 2, reached by more than plain
\* insertions, in which key 1 was used after key 2; Add(3, ...) has evicted
\* key 2, and evictions would now remove key 1 and then key 3.
C16_Witness ==
    /\ lru.MaxEntries = 2 /\ ~run.valid
    /\ last.op = "Add" /\ last.key = 3
    /\ Len(last.before) = 2 /\ last.before[1].key = 1 /\ last.before[2].key = 2
    /\ EntryKeys(Left) = {2}
    /\ Drain(lru) = <<1, 3>>

\* C17: with OnEvicted set, an Add, Get, Remove or RemoveOldest calls
\* OnEvicted exactly once for every entry that leaves the cache in it, with
\* the entry's key and the value last stored for it, and makes no other
\* call: none at all when nothing leaves.
C17_HookOncePerRemovedEntry ==
    (lru.OnEvicted /\ last.op \in {"Add", "Get", "Remove", "RemoveOldest"}) =>
        /\ Len(last.hooked) = Len(Left)
        /\ \A i \in DOMAIN Left :
              Cardinality({j \in DOMAIN last.hooked :
                              last.hooked[j][1] = Left[i].key}) = 1
        /\ \A j \in DOMAIN last.hooked :
              \E i \in DOMAIN Left : last.hooked[j] = <<Left[i].key, Left[i].value>>

\* C17 witness: after more than plain insertions, an over-capacity Add of
\* another key has evicted key 1, and OnEvicted was called once, with
\* (1, "y").
C17_Witness ==
    /\ lru.OnEvicted /\ ~run.valid
    /\ last.op = "Add" /\ last.key # 1
    /\ last.hooked = <<<<1, "y">>>>
    /\ ~GetResult(lru, 1)[2]

\* C18: Clear calls OnEvicted exactly once for each entry in the cache and
\* for no other key; after it Len() is 0 and every Get misses.  The cache
\* stays usable: after a later Add(k, v), Get(k) returns (v, true), and the
\* capacity bound holds.
C18_ClearEmptiesAndStaysUsable ==
    /\ last.op = "Clear" =>
          /\ LruLen(lru) = 0
          /\ \A k \in CacheKeys : GetResult(lru, k) = <<"nil", FALSE>>
          /\ lru.OnEvicted =>
                /\ Len(last.hooked) = Len(last.before)
                /\ \A i \in DOMAIN last.before :
                      \E j \in DOMAIN last.hooked :
                          last.hooked[j] = <<last.before[i].key, last.before[i].value>>
          /\ ~lru.OnEvicted => last.hooked = <<>>
    /\ cleared =>
          /\ last.op = "Add" => GetResult(lru, last.key) = <<last.val, TRUE>>
          /\ lru.MaxEntries # 0 => LruLen(lru) <= lru.MaxEntries
          /\ LruLen(lru) = Len(present)

\* C18 witness: after a Clear, the cache of capacity 1 was filled again and
\* an Add has evicted an entry; a Get of the key added finds its value.
C18_Witness ==
    /\ cleared /\ lru.OnEvicted /\ lru.MaxEntries = 1
    /\ last.op = "Add" /\ Len(last.hooked) = 1
    /\ GetResult(lru, last.key) = <<last.val, TRUE>>
    /\ LruLen(lru) = 1

\* A Clear of a cache of two entries has called OnEvicted twice.
C18_ClearReached ==
    /\ last.op = "Clear" /\ lru.OnEvicted
    /\ Len(last.before) = 2 /\ Len(last.hooked) = 2

\* C19: the size of the ring.  After any sequence of Add calls on a ring
\* with replica count R, keys is sorted ascending and holds exactly R * |P|
\* hash values, P the set of the distinct peers added, and every value in it
\* is mapped to a peer of P.
C19_RingSize ==
    \A r \in RingIds :
        LET m == ring[r] IN
        /\ \A i, j \in DOMAIN m.keys : i < j => m.keys[i] <= m.keys[j]
        /\ Len(m.keys) = m.replicas * Cardinality(members[r])
        /\ \A i \in DOMAIN m.keys :
              /\ m.keys[i] \in DOMAIN m.hashMap
              /\ m.hashMap[m.keys[i]] \in members[r]

\* What Add does give: keys is sorted, every value in it is mapped to a peer
\* added, and each Add call lengthens keys by R for each of its arguments,
\* whether the peer is in the ring already or not.
C19_RingGrowsPerArgument ==
    \A r \in RingIds :
        LET m == ring[r] IN
        /\ \A i, j \in DOMAIN m.keys : i < j => m.keys[i] <= m.keys[j]
        /\ Len(m.keys) = Len(before[r].map.keys) + m.replicas * Len(before[r].added)
        /\ Len(m.keys) >= m.replicas * Cardinality(members[r])
        /\ \A i \in DOMAIN m.keys :
              /\ m.keys[i] \in DOMAIN m.hashMap
              /\ m.hashMap[m.keys[i]] \in members[r]

\* A ring to which the same peer was added twice: keys holds its hashes
\* twice.
C19_ReaddReached ==
    /\ Cardinality(members[1]) = 1
    /\ Len(ring[1].keys) = 2 * ring[1].replicas

\* C20: liveness of singleflight.  When every load function returns and
\* the scheduling is fair, every Do call returns, the executor's and every
\* waiter's; and whenever all the calls made have returned, callMap holds no
\* record.
C20_EveryDoReturns ==
    /\ \A p \in Procs : (pc[p] # "idle") ~> (pc[p] = "done")
    /\ []((\A p \in Procs : pc[p] \in {"idle", "done"}) => DOMAIN callMap = {})

\* The part of C20 that is about states: when all the calls made have
\* returned, callMap holds no record.
C20_NoRecordLeft ==
    (\A p \in Procs : pc[p] \in {"idle", "done"}) => DOMAIN callMap = {}

\* C20 witness: all goroutines have called Do and returned, two of them as
\* waiters on the record of the third, and callMap is empty.
C20_Witness ==
    /\ \A p \in Procs : pc[p] = "done"
    /\ Cardinality({p \in Procs : role[p] = "waiter"}) = 2
    /\ Cardinality({p \in Procs : role[p] = "executor"}) = 1
    /\ DOMAIN callMap = {}

\* C21: the structure of the cache.  After every operation, Clear included,
\* the keys of the index map are the keys held by the list, no key is twice
\* in the list, and Len() is the number of distinct keys present (the keys
\* of the map, which are the keys a Get finds).
C21_IndexMatchesList ==
    LET keys == ListKeys(lru.dll) IN
    /\ lru.cache = {keys[i] : i \in DOMAIN keys}
    /\ \A i, j \in DOMAIN keys : i # j => keys[i] # keys[j]
    /\ LruLen(lru) = Cardinality(lru.cache)
    /\ LruLen(lru) = Cardinality({k \in CacheKeys : GetResult(lru, k)[2]})

\* C21 witness: a cache that was cleared and filled again with three
\* entries; a Remove has taken one out, and map and list hold the other two.
C21_Witness ==
    /\ cleared /\ last.op = "Remove"
    /\ Len(last.before) = 3 /\ Len(Left) = 1
    /\ Len(lru.dll) = 2 /\ Cardinality(lru.cache) = 2
    /\ LruLen(lru) = 2

=============================================================================
